---- MODULE Spec2Model ----
(***************************************************************************)
(* replican-sync, package fs: the local block store (store.go), the        *)
(* versioned gob codec of index nodes and the weak rolling checksum.       *)
(***************************************************************************)
EXTENDS Integers, Sequences, FiniteSets, TLC

VARIABLES
    fs,        \* the filesystem: full path -> [kind, data]
    st,        \* NewLocalStore's outcome: "unbuilt", "ok", "error", "panic"
    kind,      \* the concrete store: "nil", "dir" (LocalDirStore), "file" (LocalFileStore)
    tree,      \* the indexed File nodes under Root()
    index,     \* the BlockIndex: [files: strong -> File, blocks: strong -> Block]
    relocs,    \* localBase.relocs: relpath -> relocated relpath
    ret,       \* what the last call returned
    pc,        \* concurrent Relocate calls: each caller's position in Relocate
    argPath,   \* each caller's fullpath
    relocTarget, \* each caller's relocFullpath
    didMove,   \* whether each caller's Move succeeded
    wire,      \* the codec: the encoded blob
    wkind,     \* the kind of node the blob encodes: "Block", "File", "Dir"
    heap,      \* the nodes decoded into: node id -> fields
    gerr,      \* what GobDecode returned
    gphase,    \* "idle", "wire", "sent", "ready" (a target is allocated), "decoded"
    win,       \* the weak checksum: the window of bytes
    wa,        \* the accumulators being rolled
    wb,
    wi,        \* how many bytes of the window were rolled in
    ua,        \* the accumulators of one pass over the window
    ub,
    wupdated   \* whether that pass was made

svars == <<fs, st, kind, tree, index, relocs, ret>>

cvars == <<pc, argPath, relocTarget, didMove>>

gvars == <<wire, wkind, heap, gerr, gphase>>

wvars == <<win, wa, wb, wi, ua, ub, wupdated>>

vars == <<svars, cvars, gvars, wvars>>

\* ------------------------------------------------------------------ bounds

\* The block size, scaled down from 8192 so that a file of MaxLen bytes has a
\* full block and a shorter final one.
BLOCKSIZE == 2

\* The longest file content.
MaxLen == 3

\* The names ioutil.TempFile may hand out under the store root.
RelocNames == {"_reloc1", "_reloc2"}

\* The callers that run Relocate at the same time.
NProcs == 2

Procs == 1..NProcs

\* ------------------------------------------------------------------ helpers

Min(a, b) == IF a < b THEN a ELSE b

Max(a, b) == IF a > b THEN a ELSE b

IsPrefix(p, q) == Len(p) <= Len(q) /\ SubSeq(q, 1, Len(p)) = p

Drop(q, k) == SubSeq(q, k + 1, Len(q))

Nil == "nil"

\* ------------------------------------------------------------------ paths

\* store.rootPath, as path components.
RootPath == <<"root">>

\* filepath.Join(store.RootPath(), relpath)
Join(root, relpath) == root \o relpath

\* strings.Replace(fullpath, store.RootPath(), "", 1) and the trim of the
\* leading separators: the first occurrence of the root is cut out.
StoreRelPath(fullpath) ==
    LET n == Len(RootPath)
        hits == {i \in 1..(Len(fullpath) - n + 1) :
                    SubSeq(fullpath, i, i + n - 1) = RootPath}
    IN  IF hits = {} THEN fullpath
        ELSE LET i == CHOOSE h \in hits : \A g \in hits : h <= g
             IN  SubSeq(fullpath, 1, i - 1) \o Drop(fullpath, i + n - 1)

\* RelPath(file): the names from below the root down to the node.
NodeRelPath(file) == file.rel

\* Resolve as it would be without the table lookup.
ResolveNoRelocs(relpath) == Join(RootPath, relpath)

\* localBase.Resolve
Resolve(relpath) ==
    IF relpath \in DOMAIN relocs
    THEN Join(RootPath, relocs[relpath])
    ELSE Join(RootPath, relpath)

\* ------------------------------------------------------------------ index

\* The strong checksum: a digest taken as collision free.
Strong(data) == [sha1 |-> data]

NoStrong == [sha1 |-> <<-1>>]

\* A checksum of no indexed content.
AbsentStrong == Strong(<<0, 0, 0, 0, 0, 0, 0, 0, 0>>)

NBlocks(size) == (size + BLOCKSIZE - 1) \div BLOCKSIZE

\* The bytes of the block at `position` of `data`.
BlockBytes(data, position) ==
    SubSeq(data, position * BLOCKSIZE + 1, Min(Len(data), (position + 1) * BLOCKSIZE))

\* IndexFile: the File node of a regular file.
FileNode(rel, data) ==
    [rel |-> rel, strong |-> Strong(data), size |-> Len(data)]

\* The Block nodes of a File.
BlocksOf(file, data) ==
    {[parent |-> file, position |-> p, strong |-> Strong(BlockBytes(data, p))] :
        p \in 0..(NBlocks(Len(data)) - 1)}

\* block.Offset()
Offset(block) == block.position * BLOCKSIZE

\* IndexDir / IndexFile: the File nodes found at and below `root`.
IndexTree(f, root) ==
    {FileNode(Drop(p, Len(root)), f[p].data) :
        p \in {q \in DOMAIN f : IsPrefix(root, q) /\ f[q].kind = "file"}}

AllBlocks(f, root) ==
    UNION {BlocksOf(FileNode(Drop(p, Len(root)), f[p].data), f[p].data) :
        p \in {q \in DOMAIN f : IsPrefix(root, q) /\ f[q].kind = "file"}}

\* IndexBlocks: every strong checksum of the tree is mapped to a node that has
\* it; which one of several equal nodes is kept is not fixed.
IndexBlocks(files, blocks) ==
    LET fstrongs == {n.strong : n \in files}
        bstrongs == {b.strong : b \in blocks}
    IN  {[files |-> ff, blocks |-> bb] :
            ff \in {g \in [fstrongs -> files] : \A s \in fstrongs : g[s].strong = s},
            bb \in {g \in [bstrongs -> blocks] : \A s \in bstrongs : g[s].strong = s}}

EmptyIndex == [files |-> <<>>, blocks |-> <<>>]

\* ------------------------------------------------------------------ the filesystem

Entry(k, data) == [kind |-> k, data |-> data]

\* The contents a file may have: a run of consecutive byte values.
Content(first, len) == [i \in 1..len |-> first + i - 1]

\* A directory root holding file a and directory d with file b.
DirFs(da, db) ==
    (RootPath :> Entry("dir", <<>>)) @@
    (RootPath \o <<"a">> :> Entry("file", da)) @@
    (RootPath \o <<"d">> :> Entry("dir", <<>>)) @@
    (RootPath \o <<"d", "b">> :> Entry("file", db))

\* Move(src, dst): a rename. It fails when src is missing, when dst lies inside
\* src, and when dst exists and cannot be replaced by src.
MoveOk(f, src, dst) ==
    /\ src \in DOMAIN f
    /\ ~IsPrefix(src, dst)
    /\ dst \in DOMAIN f =>
          \/ f[src].kind = "file" /\ f[dst].kind = "file"
          \/ /\ f[src].kind = "dir" /\ f[dst].kind = "dir"
             /\ \A q \in DOMAIN f : IsPrefix(dst, q) => q = dst

Move(f, src, dst) ==
    LET moved == {p \in DOMAIN f : IsPrefix(src, p)}
        kept == {p \in DOMAIN f : ~IsPrefix(src, p) /\ ~IsPrefix(dst, p)}
        to(p) == dst \o Drop(p, Len(src))
    IN  [q \in kept \cup {to(p) : p \in moved} |->
            IF q \in kept THEN f[q]
            ELSE f[src \o Drop(q, Len(dst))]]

\* ------------------------------------------------------------------ results

NoRet ==
    [op |-> "none", path |-> <<>>, strong |-> NoStrong, from |-> 0, len |-> 0,
     n |-> 0, err |-> Nil, bytes |-> <<>>, isnil |-> TRUE, opened |-> FALSE,
     inner |-> "none", target |-> <<>>]

\* ReadInto as it would be if an unknown checksum were not reported.
ReadIntoNoNotFound(strong, from, length) ==
    IF strong \notin DOMAIN index.files
    THEN [n |-> 0, err |-> Nil, out |-> <<>>, opened |-> TRUE]
    ELSE LET path == Resolve(NodeRelPath(index.files[strong]))
         IN  IF path \notin DOMAIN fs
             THEN [n |-> 0, err |-> "ENOENT", out |-> <<>>, opened |-> TRUE]
             ELSE [n |-> 0, err |-> "EOF", out |-> <<>>, opened |-> TRUE]

\* localBase.ReadInto: the count, the error, the bytes written to the writer
\* and whether os.Open was called.
ReadInto(strong, from, length) ==
    IF strong \notin DOMAIN index.files
    THEN [n |-> 0, err |-> "NotFound", out |-> <<>>, opened |-> FALSE]
    ELSE LET file == index.files[strong]
             path == Resolve(NodeRelPath(file))
         IN  IF path \notin DOMAIN fs
             THEN [n |-> 0, err |-> "ENOENT", out |-> <<>>, opened |-> TRUE]
             ELSE IF from < 0
             THEN [n |-> 0, err |-> "EINVAL", out |-> <<>>, opened |-> TRUE]
             ELSE IF fs[path].kind # "file"
             THEN [n |-> 0, err |-> "EISDIR", out |-> <<>>, opened |-> TRUE]
             ELSE LET data == fs[path].data
                      n == Min(length, Max(0, Len(data) - from))
                  IN  [n |-> n,
                       err |-> IF n < length THEN "EOF" ELSE Nil,
                       out |-> SubSeq(data, from + 1, from + n),
                       opened |-> TRUE]

\* localBase.ReadBlock: the bytes (nil or a buffer), the error, and the error
\* of the ReadInto it delegated to.
ReadBlock(strong) ==
    IF strong \notin DOMAIN index.blocks
    THEN [bytes |-> <<>>, isnil |-> TRUE, err |-> "NotFound", inner |-> "none"]
    ELSE LET block == index.blocks[strong]
             r == ReadInto(block.parent.strong, Offset(block), BLOCKSIZE)
         IN  IF r.err = Nil
             THEN [bytes |-> <<>>, isnil |-> TRUE, err |-> r.err, inner |-> r.err]
             ELSE [bytes |-> r.out, isnil |-> FALSE, err |-> Nil, inner |-> r.err]

\* ------------------------------------------------------------------ construction

\* The root paths NewLocalStore is given: a directory, a regular file, an
\* entry that is neither, and a missing path.
RootKinds == {"dir", "file", "other", "missing"}

Firsts == {1, 2}

InitFs ==
    {DirFs(Content(1, la), Content(fb, lb)) :
        la \in 0..MaxLen, lb \in 0..MaxLen, fb \in Firsts}
    \cup {(RootPath :> Entry("file", Content(1, la))) : la \in 0..MaxLen}
    \cup {(RootPath :> Entry("other", <<>>)), <<>>}

\* No concurrent call is under way.
CallersIdle ==
    /\ pc = [p \in Procs |-> "idle"]
    /\ argPath = [p \in Procs |-> <<>>]
    /\ relocTarget = [p \in Procs |-> <<>>]
    /\ didMove = [p \in Procs |-> FALSE]

\* The codec is not in use.
CodecIdle ==
    /\ wire = <<>>
    /\ wkind = "none"
    /\ heap = <<>>
    /\ gerr = Nil
    /\ gphase = "idle"

\* The weak checksum is not in use.
WeakIdle ==
    /\ win = <<>>
    /\ wa = 0 /\ wb = 0 /\ wi = 0
    /\ ua = 0 /\ ub = 0
    /\ wupdated = FALSE

Init ==
    /\ CallersIdle
    /\ CodecIdle
    /\ WeakIdle
    /\ fs \in InitFs
    /\ st = "unbuilt"
    /\ kind = "nil"
    /\ tree = {}
    /\ index = EmptyIndex
    /\ relocs = <<>>
    /\ ret = NoRet

\* NewLocalStore with LocalDirStore.reindex / LocalFileStore.reindex. indexOk
\* is whether IndexDir / IndexFile could read the root.
NewLocalStore ==
    /\ st = "unbuilt"
    /\ UNCHANGED <<cvars, gvars, wvars>>
    /\ relocs' = <<>>
    /\ fs' = fs
    /\ \E indexOk \in BOOLEAN :
        IF RootPath \notin DOMAIN fs
        THEN \* os.Stat fails
             /\ st' = "error" /\ kind' = "nil" /\ tree' = {} /\ index' = EmptyIndex
             /\ ret' = [NoRet EXCEPT !.op = "NewLocalStore", !.err = "ENOENT"]
        ELSE IF fs[RootPath].kind \notin {"dir", "file"}
        THEN \* local is still nil: local.reindex() dereferences it
             /\ st' = "panic" /\ kind' = "nil" /\ tree' = {} /\ index' = EmptyIndex
             /\ ret' = [NoRet EXCEPT !.op = "NewLocalStore", !.err = "panic"]
        ELSE IF ~indexOk
        THEN /\ st' = "error" /\ kind' = "nil" /\ tree' = {} /\ index' = EmptyIndex
             /\ ret' = [NoRet EXCEPT !.op = "NewLocalStore", !.err = "EIO"]
        ELSE /\ st' = "ok"
             /\ kind' = fs[RootPath].kind
             /\ tree' = IndexTree(fs, RootPath)
             /\ index' \in IndexBlocks(IndexTree(fs, RootPath), AllBlocks(fs, RootPath))
             /\ ret' = [NoRet EXCEPT !.op = "NewLocalStore"]

\* ------------------------------------------------------------------ operations

\* ioutil.TempFile(store.RootPath(), RELOC_PREFIX): the names it can claim.
FreeNames(f) ==
    IF RootPath \in DOMAIN f /\ f[RootPath].kind = "dir"
    THEN {n \in RelocNames : Join(RootPath, <<n>>) \notin DOMAIN f}
    ELSE {}

\* localBase.Relocate, the whole call by one caller.
Relocate(fullpath) ==
    /\ st = "ok"
    /\ UNCHANGED <<st, kind, tree, index, cvars, gvars, wvars>>
    /\ IF FreeNames(fs) = {}
       THEN /\ UNCHANGED <<fs, relocs>>
            /\ ret' = [NoRet EXCEPT !.op = "Relocate", !.path = fullpath, !.err = "TempFile"]
       ELSE \E name \in FreeNames(fs) :
            LET relocFullpath == Join(RootPath, <<name>>)
            IN  IF ~MoveOk(fs, fullpath, relocFullpath)
                THEN /\ UNCHANGED <<fs, relocs>>
                     /\ ret' = [NoRet EXCEPT !.op = "Relocate", !.path = fullpath,
                                             !.err = "Move"]
                ELSE /\ fs' = Move(fs, fullpath, relocFullpath)
                     /\ relocs' = (StoreRelPath(fullpath) :> StoreRelPath(relocFullpath))
                                    @@ relocs
                     /\ ret' = [NoRet EXCEPT !.op = "Relocate", !.path = fullpath,
                                             !.target = relocFullpath]

\* The reserved prefix is the store's own: callers relocate paths of the tree
\* they synchronise (the root and a missing path included), never a _reloc path.
Relocatable(f) ==
    {p \in DOMAIN f : \A n \in RelocNames : ~IsPrefix(Join(RootPath, <<n>>), p)}
        \cup {Join(RootPath, <<"missing">>)}

DoRelocate == \E p \in Relocatable(fs) : Relocate(p)

KnownStrongs == DOMAIN index.files \cup DOMAIN index.blocks \cup {AbsentStrong}

DoReadBlock ==
    /\ st = "ok"
    /\ UNCHANGED <<fs, st, kind, tree, index, relocs, cvars, gvars, wvars>>
    /\ \E s \in KnownStrongs :
        LET r == ReadBlock(s)
        IN  ret' = [NoRet EXCEPT !.op = "ReadBlock", !.strong = s, !.bytes = r.bytes,
                                 !.isnil = r.isnil, !.err = r.err, !.inner = r.inner]

\* A negative offset makes the seek fail.
Froms == {-1, 0, BLOCKSIZE}

Lengths == {BLOCKSIZE} \cup {n.size : n \in tree}

DoReadInto ==
    /\ st = "ok"
    /\ UNCHANGED <<fs, st, kind, tree, index, relocs, cvars, gvars, wvars>>
    /\ \E s \in KnownStrongs, from \in Froms, length \in Lengths :
        LET r == ReadInto(s, from, length)
        IN  ret' = [NoRet EXCEPT !.op = "ReadInto", !.strong = s, !.from = from,
                                 !.len = length, !.n = r.n, !.err = r.err,
                                 !.bytes = r.out, !.isnil = FALSE, !.opened = r.opened]

Next == NewLocalStore \/ DoRelocate \/ DoReadBlock \/ DoReadInto

Spec == Init /\ [][Next]_vars

\* ------------------------------------------------------------------ concurrent Relocate

\* A store built over a directory root, with no call under way.
InitConc ==
    /\ CallersIdle
    /\ CodecIdle
    /\ WeakIdle
    /\ fs \in {DirFs(Content(1, la), Content(2, lb)) : la \in 1..MaxLen, lb \in 1..MaxLen}
    /\ st = "ok"
    /\ kind = "dir"
    /\ tree = IndexTree(fs, RootPath)
    /\ index \in IndexBlocks(IndexTree(fs, RootPath), AllBlocks(fs, RootPath))
    /\ relocs = <<>>
    /\ ret = NoRet

\* A caller enters Relocate(fullpath).
CallRelocate(p) ==
    /\ pc[p] = "idle"
    /\ \E path \in Relocatable(fs) :
        argPath' = [argPath EXCEPT ![p] = path]
    /\ pc' = [pc EXCEPT ![p] = "tempfile"]
    /\ UNCHANGED <<svars, relocTarget, didMove, gvars, wvars>>

\* relocFh, err := ioutil.TempFile(store.RootPath(), RELOC_PREFIX): a name no
\* entry has is claimed by creating an empty file.
TempFile(p) ==
    /\ pc[p] = "tempfile"
    /\ UNCHANGED <<st, kind, tree, index, relocs, ret, argPath, didMove, gvars, wvars>>
    /\ IF FreeNames(fs) = {}
       THEN /\ pc' = [pc EXCEPT ![p] = "failed"]
            /\ UNCHANGED <<fs, relocTarget>>
       ELSE \E name \in FreeNames(fs) :
            /\ fs' = (Join(RootPath, <<name>>) :> Entry("file", <<>>)) @@ fs
            /\ relocTarget' = [relocTarget EXCEPT ![p] = Join(RootPath, <<name>>)]
            /\ pc' = [pc EXCEPT ![p] = "close"]

\* relocFh.Close()
Close(p) ==
    /\ pc[p] = "close"
    /\ pc' = [pc EXCEPT ![p] = "remove"]
    /\ UNCHANGED <<svars, argPath, relocTarget, didMove, gvars, wvars>>

\* os.Remove(relocFh.Name()): whatever lies at the name now is removed, unless
\* nothing does or it is a directory with entries.
Remove(p) ==
    /\ pc[p] = "remove"
    /\ UNCHANGED <<st, kind, tree, index, relocs, ret, argPath, relocTarget, didMove, gvars, wvars>>
    /\ IF relocTarget[p] \in DOMAIN fs /\ (\A q \in DOMAIN fs : IsPrefix(relocTarget[p], q) => q = relocTarget[p])
       THEN /\ fs' = [q \in DOMAIN fs \ {relocTarget[p]} |-> fs[q]]
            /\ pc' = [pc EXCEPT ![p] = "move"]
       ELSE /\ fs' = fs
            /\ pc' = [pc EXCEPT ![p] = "failed"]

\* err = Move(fullpath, relocFullpath)
MoveStep(p) ==
    /\ pc[p] = "move"
    /\ UNCHANGED <<st, kind, tree, index, relocs, ret, argPath, relocTarget, gvars, wvars>>
    /\ IF MoveOk(fs, argPath[p], relocTarget[p])
       THEN /\ fs' = Move(fs, argPath[p], relocTarget[p])
            /\ didMove' = [didMove EXCEPT ![p] = TRUE]
            /\ pc' = [pc EXCEPT ![p] = "record"]
       ELSE /\ UNCHANGED <<fs, didMove>>
            /\ pc' = [pc EXCEPT ![p] = "failed"]

\* store.relocs[relpath] = relocRelpath; return relocFullpath, nil
Record(p) ==
    /\ pc[p] = "record"
    /\ relocs' = (StoreRelPath(argPath[p]) :> StoreRelPath(relocTarget[p])) @@ relocs
    /\ pc' = [pc EXCEPT ![p] = "done"]
    /\ UNCHANGED <<fs, st, kind, tree, index, ret, argPath, relocTarget, didMove, gvars, wvars>>

NextConc ==
    \E p \in Procs :
        CallRelocate(p) \/ TempFile(p) \/ Close(p) \/ Remove(p) \/ MoveStep(p) \/ Record(p)

SpecConc == InitConc /\ [][NextConc]_vars

\* ------------------------------------------------------------------ the gob codec

gobNodeVersion == 1

\* The most children (blocks, files, sub-directories) a node to encode has.
MaxKids == 2

\* The values of a gob stream.
IntV(n) == [t |-> "int", i |-> n, s |-> "", l |-> <<>>]

StrV(x) == [t |-> "string", i |-> 0, s |-> x, l |-> <<>>]

\* A slice of nodes: each is encoded by its own GobEncode.
ListV(blobs) == [t |-> "list", i |-> 0, s |-> "", l |-> blobs]

\* Block.GobEncode
BlockGobEncode(block) ==
    <<IntV(gobNodeVersion), IntV(block.position), IntV(block.weak), StrV(block.strong)>>

\* File.GobEncode
FileGobEncode(file) ==
    <<IntV(gobNodeVersion), StrV(file.name), IntV(file.mode), StrV(file.strong),
      IntV(file.Size),
      ListV([i \in 1..Len(file.Blocks) |-> BlockGobEncode(file.Blocks[i])])>>

\* Dir.GobEncode
RECURSIVE DirGobEncode(_)
DirGobEncode(dir) ==
    <<IntV(gobNodeVersion), StrV(dir.name), IntV(dir.mode), StrV(dir.strong),
      ListV([i \in 1..Len(dir.SubDirs) |-> DirGobEncode(dir.SubDirs[i])]),
      ListV([i \in 1..Len(dir.Files) |-> FileGobEncode(dir.Files[i])])>>

\* Node ids: the path of (collection, index) steps from the decoded target.
NoParent == <<<<"nil", 0>>>>

OldParent == <<<<"old", 0>>>>

TargetId == <<>>

ChildId(owner, coll, i) == owner \o <<<<coll, i>>>>

\* A freshly allocated node.
ZeroNode(k) ==
    [k |-> k, name |-> "", mode |-> 0, strong |-> "", position |-> 0, weak |-> 0,
     size |-> 0, parent |-> NoParent, blocks |-> <<>>, files |-> <<>>,
     subdirs |-> <<>>]

\* A node in use before it is decoded into.
OldNode(k) ==
    [k |-> k, name |-> "old", mode |-> 7, strong |-> "oldsum", position |-> 9,
     weak |-> 9, size |-> 9, parent |-> OldParent, blocks |-> <<>>, files |-> <<>>,
     subdirs |-> <<>>]

HasItem(stream, t) == stream # <<>> /\ Head(stream).t = t

Rest(stream) == IF stream = <<>> THEN stream ELSE Tail(stream)

\* checkVersion as it would be if the tag were read and not compared.
checkVersionUnchecked(stream) == Nil

\* checkVersion: the error of reading the tag is dropped, so an unreadable
\* tag leaves version at 0.
checkVersion(stream) ==
    LET version == IF HasItem(stream, "int") THEN Head(stream).i ELSE 0
    IN  IF version # gobNodeVersion THEN "VersionMismatch" ELSE Nil

\* SetParent as it would be without the loop over the children.
SetParentSkipped(h, children, owner) == h

\* for _, child := range children { child.parent = owner }
SetParent(h, children, owner) ==
    [c \in DOMAIN h |->
        IF \E i \in 1..Len(children) : children[i] = c
        THEN [h[c] EXCEPT !.parent = owner]
        ELSE h[c]]

Result(h, e) == [heap |-> h, err |-> e]

\* Block.GobDecode into the node `id` of heap h.
BlockGobDecode(h, id, buf) ==
    IF checkVersion(buf) # Nil THEN Result(h, checkVersion(buf))
    ELSE LET s1 == Rest(buf) IN
    IF ~HasItem(s1, "int") THEN Result(h, "decode")
    ELSE LET h1 == [h EXCEPT ![id].position = Head(s1).i]
             s2 == Tail(s1) IN
    IF ~HasItem(s2, "int") THEN Result(h1, "decode")
    ELSE LET h2 == [h1 EXCEPT ![id].weak = Head(s2).i]
             s3 == Tail(s2) IN
    IF ~HasItem(s3, "string") THEN Result(h2, "decode")
    ELSE Result([h2 EXCEPT ![id].strong = Head(s3).s], Nil)

\* decoder.DecodeValue(&file.Blocks): each element is allocated and decoded
\* by Block.GobDecode.
RECURSIVE DecodeBlocks(_, _, _, _)
DecodeBlocks(h, owner, blobs, i) ==
    IF i > Len(blobs) THEN Result(h, Nil)
    ELSE LET cid == ChildId(owner, "Blocks", i)
             r == BlockGobDecode((cid :> ZeroNode("Block")) @@ h, cid, blobs[i])
         IN  IF r.err # Nil THEN r ELSE DecodeBlocks(r.heap, owner, blobs, i + 1)

\* File.GobDecode
FileGobDecode(h, id, buf) ==
    IF checkVersion(buf) # Nil THEN Result(h, checkVersion(buf))
    ELSE LET s1 == Rest(buf) IN
    IF ~HasItem(s1, "string") THEN Result(h, "decode")
    ELSE LET h1 == [h EXCEPT ![id].name = Head(s1).s]
             s2 == Tail(s1) IN
    IF ~HasItem(s2, "int") THEN Result(h1, "decode")
    ELSE LET h2 == [h1 EXCEPT ![id].mode = Head(s2).i]
             s3 == Tail(s2) IN
    IF ~HasItem(s3, "string") THEN Result(h2, "decode")
    ELSE LET h3 == [h2 EXCEPT ![id].strong = Head(s3).s]
             s4 == Tail(s3) IN
    IF ~HasItem(s4, "int") THEN Result(h3, "decode")
    ELSE LET h4 == [h3 EXCEPT ![id].size = Head(s4).i]
             s5 == Tail(s4) IN
    IF ~HasItem(s5, "list") THEN Result(h4, "decode")
    ELSE LET r == DecodeBlocks(h4, id, Head(s5).l, 1) IN
    IF r.err # Nil THEN r
    ELSE LET kids == [i \in 1..Len(Head(s5).l) |-> ChildId(id, "Blocks", i)]
             h5 == [r.heap EXCEPT ![id].blocks = kids]
         IN  Result(SetParent(h5, h5[id].blocks, id), Nil)

\* decoder.DecodeValue(&dir.Files)
RECURSIVE DecodeFiles(_, _, _, _)
DecodeFiles(h, owner, blobs, i) ==
    IF i > Len(blobs) THEN Result(h, Nil)
    ELSE LET cid == ChildId(owner, "Files", i)
             r == FileGobDecode((cid :> ZeroNode("File")) @@ h, cid, blobs[i])
         IN  IF r.err # Nil THEN r ELSE DecodeFiles(r.heap, owner, blobs, i + 1)

RECURSIVE DirGobDecode(_, _, _)
\* decoder.DecodeValue(&dir.SubDirs)
RECURSIVE DecodeSubDirs(_, _, _, _)
DecodeSubDirs(h, owner, blobs, i) ==
    IF i > Len(blobs) THEN Result(h, Nil)
    ELSE LET cid == ChildId(owner, "SubDirs", i)
             r == DirGobDecode((cid :> ZeroNode("Dir")) @@ h, cid, blobs[i])
         IN  IF r.err # Nil THEN r ELSE DecodeSubDirs(r.heap, owner, blobs, i + 1)

\* Dir.GobDecode
DirGobDecode(h, id, buf) ==
    IF checkVersion(buf) # Nil THEN Result(h, checkVersion(buf))
    ELSE LET s1 == Rest(buf) IN
    IF ~HasItem(s1, "string") THEN Result(h, "decode")
    ELSE LET h1 == [h EXCEPT ![id].name = Head(s1).s]
             s2 == Tail(s1) IN
    IF ~HasItem(s2, "int") THEN Result(h1, "decode")
    ELSE LET h2 == [h1 EXCEPT ![id].mode = Head(s2).i]
             s3 == Tail(s2) IN
    IF ~HasItem(s3, "string") THEN Result(h2, "decode")
    ELSE LET h3 == [h2 EXCEPT ![id].strong = Head(s3).s]
             s4 == Tail(s3) IN
    IF ~HasItem(s4, "list") THEN Result(h3, "decode")
    ELSE LET rd == DecodeSubDirs(h3, id, Head(s4).l, 1) IN
    IF rd.err # Nil THEN rd
    ELSE LET dirs == [i \in 1..Len(Head(s4).l) |-> ChildId(id, "SubDirs", i)]
             h4 == [rd.heap EXCEPT ![id].subdirs = dirs]
             s5 == Tail(s4) IN
    IF ~HasItem(s5, "list") THEN Result(h4, "decode")
    ELSE LET rf == DecodeFiles(h4, id, Head(s5).l, 1) IN
    IF rf.err # Nil THEN rf
    ELSE LET files == [i \in 1..Len(Head(s5).l) |-> ChildId(id, "Files", i)]
             h5 == [rf.heap EXCEPT ![id].files = files]
             h6 == SetParent(h5, h5[id].files, id)
         IN  Result(SetParent(h6, h6[id].subdirs, id), Nil)

GobDecode(k, h, id, buf) ==
    CASE k = "Block" -> BlockGobDecode(h, id, buf)
      [] k = "File" -> FileGobDecode(h, id, buf)
      [] OTHER -> DirGobDecode(h, id, buf)

\* The nodes that are encoded.
BlockOf(i) == [position |-> i, weak |-> 100 + i, strong |-> "blocksum"]

FileOf(nblocks) ==
    [name |-> "f", mode |-> 420, strong |-> "filesum", Size |-> nblocks * BLOCKSIZE,
     Blocks |-> [i \in 1..nblocks |-> BlockOf(i - 1)]]

LeafDirOf(nfiles) ==
    [name |-> "sub", mode |-> 493, strong |-> "subsum", SubDirs |-> <<>>,
     Files |-> [i \in 1..nfiles |-> FileOf(i)]]

DirOf(nsubdirs, nfiles) ==
    [name |-> "top", mode |-> 493, strong |-> "topsum",
     SubDirs |-> [j \in 1..nsubdirs |-> LeafDirOf(j)],
     Files |-> [i \in 1..nfiles |-> FileOf(i - 1)]]

Encodings ==
    {[k |-> "Block", blob |-> BlockGobEncode(BlockOf(i))] : i \in 0..MaxKids}
    \cup {[k |-> "File", blob |-> FileGobEncode(FileOf(n))] : n \in 0..MaxKids}
    \cup {[k |-> "Dir", blob |-> DirGobEncode(DirOf(ns, nf))] :
            ns \in 0..MaxKids, nf \in 0..MaxKids}

\* What a blob of another version, or a damaged one, may look like: another
\* tag, a tag that is no integer, or a blob cut short.
Damaged(blob) ==
    {<<IntV(v)>> \o Tail(blob) : v \in {0, gobNodeVersion + 1}}
    \cup {<<StrV("x")>> \o Tail(blob)}
    \cup {SubSeq(blob, 1, n) : n \in 0..(Len(blob) - 1)}

\* No store is built.
StoreIdle ==
    /\ fs = <<>>
    /\ st = "unbuilt"
    /\ kind = "nil"
    /\ tree = {}
    /\ index = EmptyIndex
    /\ relocs = <<>>
    /\ ret = NoRet

InitGob ==
    /\ CallersIdle
    /\ CodecIdle
    /\ WeakIdle
    /\ StoreIdle

\* A node is encoded.
Encode ==
    /\ gphase = "idle"
    /\ \E e \in Encodings : wire' = e.blob /\ wkind' = e.k
    /\ gphase' = "wire"
    /\ UNCHANGED <<heap, gerr, svars, cvars, wvars>>

\* The blob reaches the decoder from another version, or damaged.
Damage ==
    /\ gphase = "wire"
    /\ wire' \in Damaged(wire)
    /\ gphase' = "sent"
    /\ UNCHANGED <<wkind, heap, gerr, svars, cvars, wvars>>

\* The node to decode into: a fresh one, or one that is in use.
NewTarget ==
    /\ gphase \in {"wire", "sent"}
    /\ heap' \in {(TargetId :> ZeroNode(wkind)), (TargetId :> OldNode(wkind))}
    /\ gphase' = "ready"
    /\ UNCHANGED <<wire, wkind, gerr, svars, cvars, wvars>>

\* GobDecode(buf) on the target.
Decode ==
    /\ gphase = "ready"
    /\ heap' = GobDecode(wkind, heap, TargetId, wire).heap
    /\ gerr' = GobDecode(wkind, heap, TargetId, wire).err
    /\ gphase' = "decoded"
    /\ UNCHANGED <<wire, wkind, svars, cvars, wvars>>

NextGob == Encode \/ Damage \/ NewTarget \/ Decode

SpecGob == InitGob /\ [][NextGob]_vars

\* ------------------------------------------------------------------ the weak checksum

\* The largest byte value of a window.
MaxByte == 7

RECURSIVE SumA(_, _)
\* start_cksum's a over the first k bytes: a = a + x
SumA(data, k) == IF k = 0 THEN 0 ELSE SumA(data, k - 1) + data[k]

RECURSIVE SumB(_, _)
\* start_cksum's b over the first k bytes: b = b + (l - i) * x
SumB(data, k) ==
    IF k = 0 THEN 0 ELSE SumB(data, k - 1) + (Len(data) - k) * data[k]

\* start_cksum(data): both accumulators in one pass.
start_cksum(data) == [a |-> SumA(data, Len(data)), b |-> SumB(data, Len(data))]

\* roll_cksum(removed_byte, added_byte, a, b), WeakChecksum::roll
roll_cksum(removed_byte, added_byte, a, b) ==
    LET a2 == a - (removed_byte - added_byte)
    IN  [a |-> a2, b |-> b - ((removed_byte * BLOCKSIZE) - a2)]

\* weak_cksum, WeakChecksum::getChecksum: b in the high half, a in the low.
weak_cksum(a, b) == (b * 65536) + a

InitWeak ==
    /\ CallersIdle
    /\ CodecIdle
    /\ StoreIdle
    /\ win \in [1..BLOCKSIZE -> 0..MaxByte]
    /\ wa = 0 /\ wb = 0 /\ wi = 0
    /\ ua = 0 /\ ub = 0
    /\ wupdated = FALSE

\* One pass over the window.
Update ==
    /\ ~wupdated
    /\ ua' = start_cksum(win).a
    /\ ub' = start_cksum(win).b
    /\ wupdated' = TRUE
    /\ UNCHANGED <<win, wa, wb, wi, svars, cvars, gvars>>

\* The next byte of the window is rolled in; the byte that leaves is a zero.
Roll ==
    /\ wi < Len(win)
    /\ wa' = roll_cksum(0, win[wi + 1], wa, wb).a
    /\ wb' = roll_cksum(0, win[wi + 1], wa, wb).b
    /\ wi' = wi + 1
    /\ UNCHANGED <<win, ua, ub, wupdated, svars, cvars, gvars>>

NextWeak == Update \/ Roll

SpecWeak == InitWeak /\ [][NextWeak]_vars

\* ------------------------------------------------------------------ the store's claims

\* Every indexed file is where Resolve looks for it, with the indexed content.
Intact ==
    \A n \in tree :
        /\ Resolve(NodeRelPath(n)) \in DOMAIN fs
        /\ fs[Resolve(NodeRelPath(n))].kind = "file"
        /\ Strong(fs[Resolve(NodeRelPath(n))].data) = n.strong

\* C1: on an intact store ReadBlock of an indexed block's checksum returns no
\* error and exactly the block's bytes: those of its owning file from
\* position*BLOCKSIZE on, of the block's own length.
C1_ReadBlockReturnsBlock ==
    (ret.op = "ReadBlock" /\ ret.strong \in DOMAIN index.blocks /\ Intact) =>
        LET block == index.blocks[ret.strong]
            owner == fs[Resolve(NodeRelPath(block.parent))].data
        IN  /\ ret.err = Nil
            /\ ~ret.isnil
            /\ ret.bytes = BlockBytes(owner, block.position)

C3_DirRelocateKeepsFiles ==
    (ret.op = "Relocate" /\ ret.err = Nil /\ ret.target \in DOMAIN fs
        /\ fs[ret.target].kind = "dir") =>
        \A n \in tree :
            (/\ IsPrefix(StoreRelPath(ret.path), NodeRelPath(n))
             /\ ret.target \o Drop(NodeRelPath(n), Len(StoreRelPath(ret.path)))
                    \in DOMAIN fs)
            => /\ ReadInto(n.strong, 0, n.size).err = Nil
               /\ ReadInto(n.strong, 0, n.size).n = n.size
               /\ ReadInto(n.strong, 0, n.size).out = n.strong.sha1

Indexed == DOMAIN index.files \cup DOMAIN index.blocks

\* C7: for a checksum absent from the BlockIndex, ReadBlock returns a
\* not-found error and no bytes, ReadInto returns a not-found error and a
\* count of 0, writes nothing and opens no file, and the store is unchanged.
C7_NotFound ==
    [][(ret'.op \in {"ReadBlock", "ReadInto"} /\ ret'.strong \notin Indexed) =>
          /\ ret'.err = "NotFound"
          /\ ret'.n = 0
          /\ ret'.bytes = <<>>
          /\ ret'.op = "ReadBlock" => ret'.isnil
          /\ ~ret'.opened
          /\ UNCHANGED <<fs, st, kind, tree, index, relocs>>]_vars

\* C7's case: ReadInto was called with an unknown checksum on a store that
\* indexes something.
C7_Witness ==
    /\ ret.op = "ReadInto"
    /\ ret.strong \notin Indexed
    /\ Indexed # {}
    /\ ret.err = "NotFound"

\* C9: when the underlying read fails, ReadInto returns the error, and
\* ReadBlock returns an error too, never data with a nil error.
C9_ReadErrorsPropagate ==
    /\ (ret.op = "ReadInto" /\ ret.strong \in DOMAIN index.files
            /\ \/ Resolve(NodeRelPath(index.files[ret.strong])) \notin DOMAIN fs
               \/ ret.from < 0
               \/ ret.n < ret.len)
        => ret.err # Nil
    /\ (ret.op = "ReadBlock" /\ ret.inner \notin {"none", Nil}) => ret.err # Nil

\* C10: NewLocalStore ends with a store whose root and index are set and a nil
\* error, or with no store and an error; it never calls reindex on a nil store.
C10_NewLocalStoreOutcome ==
    st # "unbuilt" =>
        \/ st = "ok" /\ kind \in {"dir", "file"}
        \/ st = "error" /\ kind = "nil"

\* C4: however the steps of concurrent Relocate calls interleave, no two calls
\* move their sources to the same relocation target.
C4_TargetsDistinct ==
    \A p, q \in Procs : (p # q /\ didMove[p] /\ didMove[q]) => relocTarget[p] # relocTarget[q]

\* The tag is not gobNodeVersion, or cannot be read.
BadTag(blob) == ~HasItem(blob, "int") \/ Head(blob).i # gobNodeVersion

\* C5: GobDecode of a blob whose version tag is not gobNodeVersion, or cannot
\* be read, returns an error and leaves every field of the target as it was:
\* nothing is decoded and no parent is set.
C5_VersionMismatchNoMutation ==
    [][(gphase = "ready" /\ gphase' = "decoded" /\ BadTag(wire)) =>
          (gerr' = "VersionMismatch" /\ heap' = heap)]_vars

\* C5's case: a Dir blob with a wrong tag and all its fields was decoded into
\* a node in use.
C5_Witness ==
    /\ gphase = "decoded"
    /\ wkind = "Dir"
    /\ BadTag(wire)
    /\ Len(wire) = 6
    /\ Head(wire).t = "int"
    /\ Len(wire[5].l) > 0
    /\ gerr = "VersionMismatch"
    /\ heap = (TargetId :> OldNode("Dir"))

RECURSIVE NoRef(_)
\* No value of the blob, at any depth, is a reference.
NoRef(blob) ==
    \A i \in 1..Len(blob) :
        /\ blob[i].t \in {"int", "string", "list"}
        /\ \A j \in 1..Len(blob[i].l) : NoRef(blob[i].l[j])

Kids(node) == node.blocks \o node.files \o node.subdirs

\* C8: after a successful GobDecode every Block of a File, and every File and
\* sub-Dir of a Dir, at every level, has its decoded owner as parent; the blob
\* holds no parent reference and the target's own parent is not set from it.
C8_ParentsRebuilt ==
    [][(gphase = "ready" /\ gphase' = "decoded" /\ gerr' = Nil) =>
          /\ \A id \in DOMAIN heap' :
                \A i \in 1..Len(Kids(heap'[id])) :
                    /\ Kids(heap'[id])[i] \in DOMAIN heap'
                    /\ heap'[Kids(heap'[id])[i]].parent = id
          /\ \A id \in DOMAIN heap' \ {TargetId} :
                \E i \in 1..Len(Kids(heap'[heap'[id].parent])) :
                    Kids(heap'[heap'[id].parent])[i] = id
          /\ heap'[TargetId].parent = heap[TargetId].parent
          /\ NoRef(wire)]_vars

\* C8's case: a Dir was decoded whose sub-Dir has a File with Blocks, each
\* level's parent being its owner.
C8_Witness ==
    /\ gphase = "decoded"
    /\ gerr = Nil
    /\ wkind = "Dir"
    /\ Len(heap[TargetId].subdirs) > 0
    /\ Len(heap[TargetId].files) > 1
    /\ LET d == heap[TargetId].subdirs[1]
       IN  /\ heap[d].parent = TargetId
           /\ Len(heap[d].files) > 0
           /\ heap[heap[d].files[1]].parent = d
           /\ Len(heap[heap[d].files[1]].blocks) > 0
           /\ heap[heap[heap[d].files[1]].blocks[1]].parent = heap[d].files[1]

\* C6: for a window of BLOCKSIZE bytes, the accumulators and the checksum of
\* one pass over it equal those of rolling its bytes in, one by one, from
\* a = b = 0 over zeros.
C6_UpdateEqualsRoll ==
    (wupdated /\ wi = BLOCKSIZE /\ Len(win) = BLOCKSIZE) =>
        /\ ua = wa
        /\ ub = wb
        /\ weak_cksum(ua, ub) = weak_cksum(wa, wb)

====
